---- MODULE Spec2Model ----
(***************************************************************************)
(* Model of reference_files/prophetScript.py: the interactive buoy         *)
(* forecast script (main, buoySetUp, make_predictions, to_html, to_table). *)
(*                                                                         *)
(* Time is counted in ticks, TicksPerDay ticks to a day, day 0 being       *)
(* 1970-01-01.  Measurements and forecasts are fixed-point numbers counted *)
(* in 1/One of a unit (One = 8: eighths, which binary floats hold exactly).*)
(* Console input is a sequence of one-character strings.                   *)
(***************************************************************************)
EXTENDS Integers, Sequences, FiniteSets, TLC

VARIABLES
    pc,                     \* position of the (single) thread of control
    error,                  \* "" or the uncaught exception that ended the run
    known,                  \* station ids the data service accepts
    now,                    \* wall clock, in ticks
    location_choice,        \* main
    target_variable_choice, \* main
    target_variable,        \* main
    buoyNum,                \* buoySetUp
    valid,                  \* buoySetUp
    df_data,                \* buoySetUp: the fetched table
    fetched_id,             \* the station id the service last answered for
    buoy_df,                \* main: what buoySetUp returned
    today_date,             \* make_predictions
    training_df,            \* make_predictions
    modeling_df,            \* make_predictions: rows (ds, y, cap) given to fit
    cap,                    \* make_predictions
    mp_future,              \* make_predictions: rows (ds, cap) given to predict
    forecast,               \* make_predictions / main
    today,                  \* main: now + 1 day
    future,                 \* main: the forecast rows presented
    row_i,                  \* main: rows of future rendered so far
    html,                   \* main: the body text built for to_html
    console,                \* lines printed to standard output (the menus of the
                            \* two prompts, repeated on every turn, are left out)
    file,                   \* contents of output_html.html ("" when absent)
    table                   \* main: what to_table returned

vars == <<pc, error, known, now, location_choice, target_variable_choice,
          target_variable, buoyNum, valid, df_data, fetched_id, buoy_df,
          today_date, training_df, modeling_df, cap, mp_future, forecast,
          today, future, row_i, html, console, file, table>>

(***************************************************************************)
(* Bounds of the model.                                                    *)
(***************************************************************************)
TicksPerDay == 2
One == 8
RunDay == 19723          \* 2024-01-01, a Monday
MaxClockSkew == 1        \* ticks the clock may advance between two reads
MaxSeed == 1             \* fitted models distinguished: 0..MaxSeed

(***************************************************************************)
(* Program constants.                                                      *)
(***************************************************************************)
TrainDays == 730
Periods == 15
DateWidth == 30
ValueWidth == 30
BoundsWidth == 10
MinLocation == 1
MaxLocation == 5

buoy_list == <<"44065", "44085", "44013", "46253", "46053">>
variable_list == <<"wave_height", "average_period">>

NaN == -1000000          \* a missing measurement
NoFrame == [type |-> "bool", val |-> FALSE]     \* Python's False

(***************************************************************************)
(* Sequences.                                                              *)
(***************************************************************************)
Range(s) == {s[i] : i \in DOMAIN s}

RECURSIVE MaxOf(_)
MaxOf(S) ==
    LET x == CHOOSE e \in S : TRUE
    IN  IF S = {x} THEN x
        ELSE LET m == MaxOf(S \ {x}) IN IF x > m THEN x ELSE m

(***************************************************************************)
(* int(input(...)): surrounding white space is stripped, one optional sign,*)
(* then at least one decimal digit and nothing else; anything else raises  *)
(* ValueError.                                                             *)
(***************************************************************************)
Digits == <<"0", "1", "2", "3", "4", "5", "6", "7", "8", "9">>
IsDigit(c) == \E i \in DOMAIN Digits : Digits[i] = c
DigitVal(c) == (CHOOSE i \in DOMAIN Digits : Digits[i] = c) - 1

RECURSIVE Strip(_)
Strip(s) ==
    IF s = <<>> THEN s
    ELSE IF Head(s) = " " THEN Strip(Tail(s))
    ELSE IF s[Len(s)] = " " THEN Strip(SubSeq(s, 1, Len(s) - 1))
    ELSE s

RECURSIVE DigitsValue(_, _)
DigitsValue(s, acc) ==
    IF s = <<>> THEN acc ELSE DigitsValue(Tail(s), acc * 10 + DigitVal(Head(s)))

ParseInt(s) ==
    LET t == Strip(s)
        signed == t # <<>> /\ Head(t) \in {"+", "-"}
        body == IF signed THEN Tail(t) ELSE t
    IN  IF body # <<>> /\ \A i \in DOMAIN body : IsDigit(body[i])
        THEN [ok |-> TRUE,
              val |-> IF signed /\ Head(t) = "-" THEN 0 - DigitsValue(body, 0)
                      ELSE DigitsValue(body, 0)]
        ELSE [ok |-> FALSE, val |-> 0]

\* what the user may type at the two menu prompts
MenuInputs ==
    { <<"0">>, <<"1">>, <<"2">>, <<"3">>, <<"4">>, <<"5">>, <<"6">>,
      <<"-", "1">>, <<" ", "2">>, <<"a">>, <<>> }

\* what the user may type when asked for another buoy number
StationInputs == {"44013", "46253", "00000"}

(***************************************************************************)
(* Data frames: a column per name, all of one length; index names the      *)
(* column that is the index ("" for a plain row-number index).            *)
(***************************************************************************)
Frame(index, cols) == [type |-> "DataFrame", index |-> index, cols |-> cols]
IsFrame(v) == v.type = "DataFrame"
Columns(df) == DOMAIN df.cols \ {df.index}
NRows(df) == Len(df.cols.date)

At(dayOffset, tick) == (RunDay + dayOffset) * TicksPerDay + tick

\* the historical tables the data service may hold for a station
FullTable ==
    Frame("date",
          [date |-> <<At(-731, 1), At(-730, 0), At(-730, 1), At(-3, 0), At(-2, 0), At(-1, 1)>>,
           wave_height |-> <<9 * One, 8 * One, 2 * One, NaN, 4 * One, NaN>>,
           average_period |-> <<NaN, 5 * One, NaN, 7 * One, 6 * One, NaN>>,
           wind_speed |-> <<NaN, NaN, NaN, NaN, NaN, NaN>>])
RecentTable ==
    Frame("date",
          [date |-> <<At(-2, 0), At(-1, 0), At(0, 0)>>,
           wave_height |-> <<NaN, One, (3 * One) \div 2>>,
           average_period |-> <<6 * One, NaN, 5 * One>>])
NoPeriodTable ==
    Frame("date",
          [date |-> <<At(-2, 0), At(-1, 0)>>,
           wave_height |-> <<One, 2 * One>>,
           wind_speed |-> <<3 * One, NaN>>])
EmptyWaveTable ==
    Frame("date",
          [date |-> <<At(-2, 0), At(-1, 0)>>,
           wave_height |-> <<NaN, NaN>>,
           average_period |-> <<6 * One, 5 * One>>])
StaleTable ==
    Frame("date",
          [date |-> <<At(-800, 0), At(-731, 1), At(-730, 0)>>,
           wave_height |-> <<One, 2 * One, 3 * One>>,
           average_period |-> <<6 * One, 5 * One, 4 * One>>])
Tables == {FullTable, RecentTable, NoPeriodTable, EmptyWaveTable, StaleTable}

DropNoColumns(df) == df

\* df.dropna(axis=1, how='all'): the columns with no value at all go
DropEmptyColumns(df) ==
    LET keep == {c \in DOMAIN df.cols :
                    c = df.index \/ \E i \in DOMAIN df.cols[c] : df.cols[c][i] # NaN}
    IN  [df EXCEPT !.cols = [c \in keep |-> df.cols[c]]]

\* df.reset_index(): the index becomes an ordinary column
ResetIndex(df) == [df EXCEPT !.index = ""]

\* Series.interpolate(method='time'): a gap between two values is filled on
\* the line through them, weighted by time; a trailing gap repeats the last
\* value; a leading gap stays
Interpolate(dates, vals) ==
    [i \in DOMAIN vals |->
        IF vals[i] # NaN THEN vals[i]
        ELSE LET before == {j \in DOMAIN vals : j < i /\ vals[j] # NaN}
                 after == {j \in DOMAIN vals : j > i /\ vals[j] # NaN}
             IN  IF before = {} THEN NaN
                 ELSE LET p == MaxOf(before)
                      IN  IF after = {} THEN vals[p]
                          ELSE LET n == 0 - MaxOf({0 - j : j \in after})
                               IN  vals[p] + ((vals[n] - vals[p]) * (dates[i] - dates[p]))
                                               \div (dates[n] - dates[p])]

RequiredPresent(df) ==
    "wave_height" \in Columns(df) /\ "average_period" \in Columns(df)

\* lines 32-40 of buoySetUp
Interpolated(df) ==
    Frame("date",
          [date |-> df.cols.date,
           wave_height |-> df.cols.wave_height,
           average_period |-> df.cols.average_period,
           wave_height_interpolated |->
               Interpolate(df.cols.date, df.cols.wave_height),
           average_period_interpolated |->
               Interpolate(df.cols.date, df.cols.average_period)])

\* lines 24-40 of buoySetUp: what it returns for a fetched table
Preprocessed(raw) ==
    LET df == ResetIndex(DropEmptyColumns(raw))
    IN  IF ~RequiredPresent(df) THEN NoFrame ELSE Interpolated(df)

(***************************************************************************)
(* The state after construction: nothing entered yet.                      *)
(***************************************************************************)
KnownSets == {Range(buoy_list), Range(buoy_list) \ {"44013"}}
PriorFiles == {"", "<!DOCTYPE html><html><body>old</body></html>"}
EmptyFrame == Frame("", [date |-> <<>>])

Init ==
    /\ pc = "location"
    /\ error = ""
    /\ known \in KnownSets
    /\ now \in {At(0, 0), At(0, 1)}
    /\ location_choice = 0
    /\ target_variable_choice = 0
    /\ target_variable = ""
    /\ buoyNum = ""
    /\ valid = FALSE
    /\ df_data = EmptyFrame
    /\ fetched_id = ""
    /\ buoy_df = EmptyFrame
    /\ today_date = 0
    /\ training_df = EmptyFrame
    /\ modeling_df = <<>>
    /\ cap = NaN
    /\ mp_future = <<>>
    /\ forecast = <<>>
    /\ today = 0
    /\ future = <<>>
    /\ row_i = 0
    /\ html = ""
    /\ console = <<>>
    /\ file \in PriorFiles
    /\ table = <<>>

(***************************************************************************)
(* main, lines 112-121: the two menu loops.                                *)
(***************************************************************************)
ValidLocation(c) == MinLocation <= c /\ c <= MaxLocation
ValidVariable(c) == c = 1 \/ c = 2

\* one turn of the loop of lines 113-115
PromptLocation ==
    /\ pc = "location"
    /\ \E typed \in MenuInputs :
          LET r == ParseInt(typed)
          IN  IF ~r.ok
              THEN /\ pc' = "crashed"
                   /\ error' = "ValueError: invalid literal for int() at the location prompt"
                   /\ UNCHANGED location_choice
              ELSE /\ location_choice' = r.val
                   /\ pc' = IF ValidLocation(r.val) THEN "variable" ELSE "location"
                   /\ UNCHANGED error
    /\ UNCHANGED <<known, now, target_variable_choice, target_variable, buoyNum,
                   valid, df_data, fetched_id, buoy_df, today_date, training_df,
                   modeling_df, cap, mp_future, forecast, today, future, row_i,
                   html, console, file, table>>

\* one turn of the loop of lines 119-121
PromptVariable ==
    /\ pc = "variable"
    /\ \E typed \in MenuInputs :
          LET r == ParseInt(typed)
          IN  IF ~r.ok
              THEN /\ pc' = "crashed"
                   /\ error' = "ValueError: invalid literal for int() at the variable prompt"
                   /\ UNCHANGED target_variable_choice
              ELSE /\ target_variable_choice' = r.val
                   /\ pc' = IF ValidVariable(r.val) THEN "call_setup" ELSE "variable"
                   /\ UNCHANGED error
    /\ UNCHANGED <<known, now, location_choice, target_variable, buoyNum,
                   valid, df_data, fetched_id, buoy_df, today_date, training_df,
                   modeling_df, cap, mp_future, forecast, today, future, row_i,
                   html, console, file, table>>

StationOfShifted(choice) == buoy_list[(choice % Len(buoy_list)) + 1]

\* the station main hands to buoySetUp, line 124
StationOf(choice) == buoy_list[choice]

\* the variable main hands to make_predictions, line 125
VariableOf(choice) == variable_list[choice]

\* line 124: the call of buoySetUp, up to the head of its loop (lines 13-16)
CallBuoySetUp ==
    /\ pc = "call_setup"
    /\ buoyNum' = StationOf(location_choice)
    /\ valid' = FALSE
    /\ pc' = "fetch"
    /\ UNCHANGED <<error, known, now, location_choice, target_variable_choice,
                   target_variable, df_data, fetched_id, buoy_df, today_date,
                   training_df, modeling_df, cap, mp_future, forecast, today,
                   future, row_i, html, console, file, table>>

(***************************************************************************)
(* buoySetUp, lines 16-22: fetch, and ask again when the service refuses.  *)
(***************************************************************************)
AfterFetchUnchecked(ok) == "preprocess"

\* where control goes after the try block of lines 17-20
AfterFetch(ok) == IF ok THEN "preprocess" ELSE "reprompt"

Fetch ==
    /\ pc = "fetch"
    /\ ~valid
    /\ IF buoyNum \in known
       THEN /\ df_data' \in Tables
            /\ fetched_id' = buoyNum
            /\ valid' = TRUE
       ELSE UNCHANGED <<df_data, fetched_id, valid>>
    /\ pc' = AfterFetch(buoyNum \in known)
    /\ UNCHANGED <<error, known, now, location_choice, target_variable_choice,
                   target_variable, buoyNum, buoy_df, today_date, training_df,
                   modeling_df, cap, mp_future, forecast, today, future, row_i,
                   html, console, file, table>>

\* line 22, the except branch
Reprompt ==
    /\ pc = "reprompt"
    /\ \E typed \in StationInputs : buoyNum' = typed
    /\ pc' = "fetch"
    /\ UNCHANGED <<error, known, now, location_choice, target_variable_choice,
                   target_variable, valid, df_data, fetched_id, buoy_df,
                   today_date, training_df, modeling_df, cap, mp_future,
                   forecast, today, future, row_i, html, console, file, table>>

\* lines 24-40 and the return into main, line 124
Preprocess ==
    /\ pc = "preprocess"
    /\ df_data' = ResetIndex(DropEmptyColumns(df_data))
    /\ buoy_df' = Preprocessed(df_data)
    /\ console' = IF Preprocessed(df_data) = NoFrame
                  THEN Append(console, "Not enough data") ELSE console
    /\ pc' = "select_target"
    /\ UNCHANGED <<error, known, now, location_choice, target_variable_choice,
                   target_variable, buoyNum, valid, fetched_id, today_date,
                   training_df, modeling_df, cap, mp_future, forecast, today,
                   future, row_i, html, file, table>>

\* lines 125-128: pick the variable and call make_predictions
SelectTarget ==
    /\ pc = "select_target"
    /\ target_variable' = VariableOf(target_variable_choice)
    /\ pc' = "make_predictions"
    /\ UNCHANGED <<error, known, now, location_choice, target_variable_choice,
                   buoyNum, valid, df_data, fetched_id, buoy_df, today_date,
                   training_df, modeling_df, cap, mp_future, forecast, today,
                   future, row_i, html, console, file, table>>

(***************************************************************************)
(* make_predictions, lines 53-81.                                          *)
(***************************************************************************)
DayOf(t) == t \div TicksPerDay
Midnight(day) == day * TicksPerDay

InWindowInclusive(t, d) == t >= Midnight(d - TrainDays)

\* line 62: is a row dated t inside the window of a run on day d
InWindow(t, d) == t > Midnight(d - TrainDays)

\* lines 62-66: the (ds, y) rows of the training window
ModelingRows(df, target, d) ==
    LET y == df.cols[target \o "_interpolated"]
        rows == [i \in DOMAIN df.cols.date |-> [ds |-> df.cols.date[i], y |-> y[i]]]
        Inside(r) == InWindow(r.ds, d)
    IN  SelectSeq(rows, Inside)

CapOfNoMargin(rows) ==
    LET ys == {rows[i].y : i \in DOMAIN rows} \ {NaN}
    IN  IF ys = {} THEN NaN ELSE MaxOf(ys)

\* line 67: Series.max() skips missing values and is missing when all are
CapOf(rows) ==
    LET ys == {rows[i].y : i \in DOMAIN rows} \ {NaN}
    IN  IF ys = {} THEN NaN ELSE MaxOf(ys) + One

\* lines 71 and 76: the cap column
WithCap(rows, c) == [i \in DOMAIN rows |-> [rows[i] EXCEPT !.cap = c]]

\* lines 53-71
Window ==
    /\ pc = "make_predictions"
    /\ IF ~IsFrame(buoy_df)
       THEN /\ pc' = "crashed"
            /\ error' = "AttributeError: 'bool' object has no attribute 'reset_index'"
            /\ UNCHANGED <<now, today_date, training_df, modeling_df, cap>>
       ELSE /\ now' \in now .. now + MaxClockSkew
            /\ today_date' = DayOf(now')
            /\ LET df == ResetIndex(buoy_df)
                   Inside(i) == InWindow(df.cols.date[i], today_date')
                   rows == ModelingRows(df, target_variable, today_date')
               IN  /\ training_df' =
                         [df EXCEPT !.cols =
                             [c \in DOMAIN df.cols |->
                                 LET pairs == [i \in DOMAIN df.cols[c] |->
                                                  <<i, df.cols[c][i]>>]
                                     Kept(p) == Inside(p[1])
                                     kept == SelectSeq(pairs, Kept)
                                 IN  [k \in DOMAIN kept |-> kept[k][2]]]]
                   /\ cap' = CapOf(rows)
                   /\ modeling_df' =
                         WithCap([i \in DOMAIN rows |->
                                     [ds |-> rows[i].ds, y |-> rows[i].y, cap |-> NaN]],
                                 CapOf(rows))
            /\ pc' = "fit"
            /\ UNCHANGED error
    /\ UNCHANGED <<known, location_choice, target_variable_choice,
                   target_variable, buoyNum, valid, df_data, fetched_id, buoy_df,
                   mp_future, forecast, today, future, row_i, html, console,
                   file, table>>

\* line 72: the model refuses a history of fewer than two known values
Fit ==
    /\ pc = "fit"
    /\ IF Cardinality({i \in DOMAIN modeling_df : modeling_df[i].y # NaN}) < 2
       THEN /\ pc' = "crashed"
            /\ error' = "ValueError: Dataframe has less than 2 non-NaN rows."
       ELSE /\ pc' = "predict"
            /\ UNCHANGED error
    /\ UNCHANGED <<known, now, location_choice, target_variable_choice,
                   target_variable, buoyNum, valid, df_data, fetched_id, buoy_df,
                   today_date, training_df, modeling_df, cap, mp_future,
                   forecast, today, future, row_i, html, console, file, table>>

RECURSIVE SortedSeq(_)
SortedSeq(S) ==
    IF S = {} THEN <<>>
    ELSE LET m == MaxOf(S) IN Append(SortedSeq(S \ {m}), m)

\* line 75: make_future_dataframe(periods): the dates of the history, then
\* `periods` more, a day apart, after the last of them
FutureDates(rows, periods) ==
    LET history == SortedSeq({rows[i].ds : i \in DOMAIN rows})
        last == history[Len(history)]
    IN  history \o [k \in 1 .. periods |-> last + k * TicksPerDay]

ExtendedIndexShort(rows) == FutureDates(rows, Periods - 1)

\* line 75 as called: fifteen periods
ExtendedIndex(rows) == FutureDates(rows, Periods)

\* line 77: what a fitted model answers for one date; the fitted models are
\* told apart by seed
Estimate(seed, ds, c) ==
    LET yhat == (ds * 3 + seed * 5) % (3 * One)
    IN  [ds |-> ds, cap |-> c, yhat |-> yhat,
         yhat_lower |-> yhat - (1 + ((ds + seed) % One)),
         yhat_upper |-> yhat + seed + (One \div 2)]

\* lines 75-81
Predict ==
    /\ pc = "predict"
    /\ LET dates == ExtendedIndex(modeling_df)
       IN  /\ mp_future' = WithCap([i \in DOMAIN dates |-> [ds |-> dates[i], cap |-> NaN]], cap)
           /\ \E seed \in 0 .. MaxSeed :
                 forecast' = [i \in DOMAIN dates |-> Estimate(seed, mp_future'[i].ds, mp_future'[i].cap)]
    /\ pc' = "filter"
    /\ UNCHANGED <<error, known, now, location_choice, target_variable_choice,
                   target_variable, buoyNum, valid, df_data, fetched_id, buoy_df,
                   today_date, training_df, modeling_df, cap, today, future,
                   row_i, html, console, file, table>>

(***************************************************************************)
(* Presentation: the formatting of lines 134-143 and 98-100.               *)
(***************************************************************************)
WeekdayNames ==
    <<"Monday", "Tuesday", "Wednesday", "Thursday", "Friday", "Saturday", "Sunday">>
MonthNames ==
    <<"January", "February", "March", "April", "May", "June", "July",
      "August", "September", "October", "November", "December">>

\* the calendar date of a day number (days since 1970-01-01)
Civil(day) ==
    LET z == day + 719468
        era == z \div 146097
        doe == z - era * 146097
        yoe == (doe - (doe \div 1460) + (doe \div 36524) - (doe \div 146096)) \div 365
        doy == doe - (365 * yoe + (yoe \div 4) - (yoe \div 100))
        mp == (5 * doy + 2) \div 153
    IN  [month |-> IF mp < 10 THEN mp + 3 ELSE mp - 9,
         day |-> doy - ((153 * mp + 2) \div 5) + 1,
         weekday |-> ((day + 3) % 7) + 1]

\* strptime(str(ds), "%Y-%m-%d %H:%M:%S").strftime("%A %B %d")
DayText(ds) ==
    LET c == Civil(DayOf(ds))
    IN  WeekdayNames[c.weekday] \o " " \o MonthNames[c.month] \o " "
        \o (IF c.day < 10 THEN "0" ELSE "") \o ToString(c.day)

\* round(x, 2), in hundredths: to the nearest, a tie to the even one
Round2(x) ==
    LET n == x * 100
        q == n \div One
        r == n % One
    IN  IF 2 * r < One THEN q
        ELSE IF 2 * r > One THEN q + 1
        ELSE IF q % 2 = 0 THEN q ELSE q + 1

\* str() of a float of at most two decimals, given in hundredths
FloatText(h) ==
    LET a == IF h < 0 THEN 0 - h ELSE h
        fp == a % 100
    IN  (IF h < 0 THEN "-" ELSE "") \o ToString(a \div 100) \o "."
        \o (IF fp % 10 = 0 THEN ToString(fp \div 10)
            ELSE (IF fp < 10 THEN "0" ELSE "") \o ToString(fp))

RECURSIVE Pad(_, _)
Pad(text, width) == IF Len(text) >= width THEN text ELSE Pad(text \o " ", width)

\* "{:<30} {:<30} {:<10}".format(a, b, c)
Format3(a, b, c) ==
    Pad(a, DateWidth) \o " " \o Pad(b, ValueWidth) \o " " \o Pad(c, BoundsWidth)

HighLow(row) ==
    FloatText(Round2(row.yhat_lower)) \o " / " \o FloatText(Round2(row.yhat_upper))
Predicted(row) == FloatText(Round2(row.yhat))

\* line 141: the line printed for a row
RowText(row) == Format3(DayText(row.ds), Predicted(row), HighLow(row))

\* line 143: what a row adds to the page
RowHtml(row) == Format3(DayText(row.ds), Predicted(row), HighLow(row)) \o "<br />"

\* line 134
HeaderHtml ==
    Format3("Date", "Wave Height Forecasted (m)", "yhat upper / yhat lower<br /><br /><br />")
\* line 135
HeaderText == Format3("Date", "Wave Height Forecasted (m)", "yhat upper / yhat lower")

\* lines 85-88
Opening ==
    "<!DOCTYPE html><html><head><title>Predictions</title></head><body><h1>Predictions</h1><p>"
Closing == "</p></body></html>"

WrittenAppended(old, body) == old \o Opening \o body \o Closing

\* lines 88-91: the file after to_html, opened in mode "w"
Written(old, body) == Opening \o body \o Closing

PresentedFromTomorrow(ds, tomorrow) == ds >= tomorrow

\* line 132: is a forecast row dated ds presented, given now + 1 day
Presented(ds, tomorrow) == ds > tomorrow

\* lines 131-136
FilterFuture ==
    /\ pc = "filter"
    /\ now' \in now .. now + MaxClockSkew
    /\ today' = now' + TicksPerDay
    /\ LET Shown(row) == Presented(row.ds, today')
       IN  future' = SelectSeq(forecast, Shown)
    /\ row_i' = 0
    /\ html' = HeaderHtml
    /\ console' = console \o <<HeaderText, "">>
    /\ pc' = "render"
    /\ UNCHANGED <<error, known, location_choice, target_variable_choice,
                   target_variable, buoyNum, valid, df_data, fetched_id, buoy_df,
                   today_date, training_df, modeling_df, cap, mp_future,
                   forecast, file, table>>

\* lines 137-143: one turn of the loop
RenderRow ==
    /\ pc = "render"
    /\ row_i < Len(future)
    /\ row_i' = row_i + 1
    /\ console' = Append(console, RowText(future[row_i + 1]))
    /\ html' = html \o RowHtml(future[row_i + 1])
    /\ UNCHANGED <<pc, error, known, now, location_choice, target_variable_choice,
                   target_variable, buoyNum, valid, df_data, fetched_id, buoy_df,
                   today_date, training_df, modeling_df, cap, mp_future,
                   forecast, today, future, file, table>>

\* line 145 and to_html, lines 83-91
ToHtml ==
    /\ pc = "render"
    /\ row_i = Len(future)
    /\ file' = Written(file, html)
    /\ pc' = "to_table"
    /\ UNCHANGED <<error, known, now, location_choice, target_variable_choice,
                   target_variable, buoyNum, valid, df_data, fetched_id, buoy_df,
                   today_date, training_df, modeling_df, cap, mp_future,
                   forecast, today, future, row_i, html, console, table>>

\* lines 98-102: the triple to_table makes of a row
TableRow(row) == <<DayText(row.ds), HighLow(row), Predicted(row)>>

\* line 147 and to_table, lines 93-104
ToTable ==
    /\ pc = "to_table"
    /\ table' = [i \in DOMAIN future |-> TableRow(future[i])]
    /\ pc' = "done"
    /\ UNCHANGED <<error, known, now, location_choice, target_variable_choice,
                   target_variable, buoyNum, valid, df_data, fetched_id, buoy_df,
                   today_date, training_df, modeling_df, cap, mp_future,
                   forecast, today, future, row_i, html, console, file>>

Next ==
    \/ PromptLocation
    \/ PromptVariable
    \/ CallBuoySetUp
    \/ Fetch
    \/ Reprompt
    \/ Preprocess
    \/ SelectTarget
    \/ Window
    \/ Fit
    \/ Predict
    \/ FilterFuture
    \/ RenderRow
    \/ ToHtml
    \/ ToTable

Spec == Init /\ [][Next]_vars

(***************************************************************************)
(* Properties.                                                             *)
(***************************************************************************)
\* buoySetUp has returned into main
Returned == valid /\ pc # "preprocess"
\* make_predictions has computed the window and the cap
Windowed == pc \in {"fit", "predict", "filter", "render", "to_table", "done"}
\* make_predictions has returned the forecast
Forecasted == pc \in {"filter", "render", "to_table", "done"}
\* main has selected the rows it presents
Filtered == pc \in {"render", "to_table", "done"}
HasValue(df, c) ==
    c \in DOMAIN df.cols /\ \E i \in DOMAIN df.cols[c] : df.cols[c][i] # NaN
IsMax(m, S) == m \in S /\ \A x \in S : x <= m

\* C1: when buoySetUp returns the no-usable-data signal, main does not call
\* make_predictions and the run does not end in an uncaught error.
C1_NoDataAborts ==
    buoy_df = NoFrame => pc \notin {"make_predictions", "crashed"}

\* C2: whatever is typed at either menu prompt, non-integers included, no
\* fatal error is raised.
C2_MenuNeverFatal ==
    error \notin
        {"ValueError: invalid literal for int() at the location prompt",
         "ValueError: invalid literal for int() at the variable prompt"}

\* C3: once buoySetUp has returned, if wave_height or average_period has no
\* value in the fetched table (absent, or present and entirely empty), it
\* has printed "Not enough data" and returned the failure value, no table.
C3_MissingColumnFails ==
    (Returned /\ (~HasValue(df_data, "wave_height") \/ ~HasValue(df_data, "average_period")))
        => /\ buoy_df = NoFrame
           /\ "Not enough data" \in Range(console)

C3_Witness ==
    /\ Returned
    /\ "wave_height" \notin DOMAIN df_data.cols
    /\ "average_period" \in DOMAIN df_data.cols
    /\ buoy_df = NoFrame

\* C4: a fetch the service refuses is followed by a re-prompt and that by
\* another fetch; a fetch of an accepted identifier ends the loop;
\* preprocessing starts only from a successful fetch, on the table fetched
\* for the identifier entered last.
C4_RetryLoop ==
    [][ /\ (pc = "fetch" /\ buoyNum \notin known) => pc' = "reprompt"
        /\ pc = "reprompt" => pc' = "fetch"
        /\ (pc = "fetch" /\ buoyNum \in known)
              => (pc' = "preprocess" /\ valid' /\ df_data' \in Tables)
        /\ (pc' = "preprocess" /\ pc # "preprocess")
              => (pc = "fetch" /\ buoyNum \in known /\ fetched_id' = buoyNum'
                  /\ buoyNum' = buoyNum)
        /\ (pc = "preprocess" /\ pc' # pc) => fetched_id = buoyNum
      ]_vars

C4_Witness ==
    pc = "preprocess" /\ buoyNum = "46253" /\ location_choice = 3

\* C5: an integer entry outside 1..5 keeps the location prompt, one inside
\* is accepted and the station handed to buoySetUp is that entry of the
\* fixed list; the same for the variable with {1, 2}.
C5_ChoiceMapping ==
    [][ /\ (pc = "location" /\ pc' # "crashed")
              => pc' = (IF location_choice' \in 1 .. 5 THEN "variable" ELSE "location")
        /\ (pc = "variable" /\ pc' # "crashed")
              => pc' = (IF target_variable_choice' \in {1, 2} THEN "call_setup" ELSE "variable")
        /\ pc # "location" => location_choice' = location_choice
        /\ pc # "variable" => target_variable_choice' = target_variable_choice
        /\ pc = "call_setup"
              => /\ location_choice \in 1 .. 5
                 /\ buoyNum' = <<"44065", "44085", "44013", "46253", "46053">>[location_choice]
        /\ pc = "select_target"
              => /\ target_variable_choice \in {1, 2}
                 /\ target_variable' = <<"wave_height", "average_period">>[target_variable_choice]
      ]_vars

C5_Witness ==
    pc = "fetch" /\ location_choice = 3 /\ buoyNum = "44013" /\ target_variable_choice = 2

\* C6: the rows presented are exactly the forecast rows dated strictly after
\* now + 1 day, and the printed table, the page and the row tuples hold one
\* entry for each of them and for no other row.
C6_OnlyAfterTomorrow ==
    Filtered =>
        /\ today = now + TicksPerDay
        /\ \A i \in DOMAIN future : future[i].ds > today
        /\ \A i \in DOMAIN forecast :
              forecast[i].ds > today <=> forecast[i] \in Range(future)
        /\ Range(future) \subseteq Range(forecast)
        /\ row_i <= Len(future)
        /\ Len(console) >= row_i
        /\ \A i \in 1 .. row_i :
              console[Len(console) - row_i + i] = RowText(future[i])
        /\ pc \in {"to_table", "done"} => row_i = Len(future)
        /\ pc = "done" =>
              /\ Len(table) = Len(future)
              /\ \A i \in DOMAIN table : table[i][1] = DayText(future[i].ds)

C6_Witness ==
    /\ pc = "done"
    /\ future # <<>>
    /\ \E i \in DOMAIN forecast : forecast[i].ds = today
    /\ \E i \in DOMAIN forecast : forecast[i].ds < today

\* the interpolated target values of the rows of buoy_df in the window
WindowValues ==
    {buoy_df.cols[target_variable \o "_interpolated"][i] :
        i \in {j \in DOMAIN buoy_df.cols.date :
                  buoy_df.cols.date[j] > (today_date - 730) * TicksPerDay}} \ {NaN}

\* C7: cap is the largest interpolated target value of the training window
\* plus one, and it is the cap of every row fitted and of every row of the
\* extended index predicted on.
C7_CapIsMaxPlusOne ==
    (Windowed /\ WindowValues # {}) =>
        /\ IsMax(cap - One, WindowValues)
        /\ \A i \in DOMAIN modeling_df : modeling_df[i].cap = cap
        /\ Forecasted =>
              /\ mp_future # <<>>
              /\ \A i \in DOMAIN mp_future : mp_future[i].cap = cap
              /\ \A i \in DOMAIN forecast : forecast[i].cap = cap

C7_Witness ==
    /\ Forecasted
    /\ target_variable = "average_period"
    /\ cap = 8 * One
    /\ Len(mp_future) > Len(modeling_df)

\* C8: the forecast is made on every timestamp of the training window and
\* on 15 more, one a day, the last 15 days after the last timestamp of the
\* window; no forecast row lies beyond.
C8_FifteenDaysPastLast ==
    Forecasted =>
        LET hist == {modeling_df[i].ds : i \in DOMAIN modeling_df}
            last == CHOOSE m \in hist : IsMax(m, hist)
            ds == {forecast[i].ds : i \in DOMAIN forecast}
        IN  /\ ds = hist \cup {last + k * TicksPerDay : k \in 1 .. 15}
            /\ Len(forecast) = Cardinality(hist) + 15
            /\ forecast[Len(forecast)].ds = last + 15 * TicksPerDay
            /\ \A i \in DOMAIN forecast : forecast[i].ds <= last + 15 * TicksPerDay

C8_Witness ==
    /\ Forecasted
    /\ Len(modeling_df) = 3
    /\ modeling_df[1].y = NaN
    /\ forecast[Len(forecast)].ds = At(15, 0)

RECURSIVE Lines(_, _, _)
Lines(printed, from, n) ==
    IF n = 0 THEN ""
    ELSE printed[from] \o "<br />" \o Lines(printed, from + 1, n - 1)

\* C9: the file written is the opening markup, the header, each printed row
\* in order followed by a line break, and the closing tags, and nothing of
\* what the file held before.
C9_DocumentMatchesConsole ==
    pc \in {"to_table", "done"} =>
        file =
            "<!DOCTYPE html><html><head><title>Predictions</title></head><body><h1>Predictions</h1><p>"
            \o HeaderHtml
            \o Lines(console, Len(console) - Len(future) + 1, Len(future))
            \o "</p></body></html>"

C9_Witness ==
    /\ pc = "done"
    /\ Len(future) >= 2
    /\ Len(console) = Len(future) + 2
    /\ file # ""

\* C10: the rows fitted are exactly the rows of the interpolated series
\* dated strictly after midnight of the run date minus 730 days, in order,
\* and cap comes from those rows alone.
C10_TrailingWindow ==
    Windowed =>
        LET dates == buoy_df.cols.date
            y == buoy_df.cols[target_variable \o "_interpolated"]
            inside == {j \in DOMAIN dates : dates[j] > (today_date - 730) * TicksPerDay}
        IN  /\ pc = "fit" => today_date = DayOf(now)
            /\ Len(modeling_df) = Cardinality(inside)
            /\ \A j \in inside :
                  \E i \in DOMAIN modeling_df :
                      modeling_df[i].ds = dates[j] /\ modeling_df[i].y = y[j]
            /\ \A i \in DOMAIN modeling_df :
                  \E j \in inside : modeling_df[i].ds = dates[j]
            /\ training_df.cols.date = [i \in DOMAIN modeling_df |-> modeling_df[i].ds]
            /\ cap # NaN => \E j \in inside : cap = y[j] + One

C10_Witness ==
    /\ Windowed
    /\ today_date = RunDay
    /\ NRows(buoy_df) = 6
    /\ Len(modeling_df) = 4
    /\ target_variable = "wave_height"
    /\ cap = 5 * One

====
